---- MODULE Spec2Model ----
(***************************************************************************)
(* Model of hashing/src/indexed_merkle_proof.rs: construction of an        *)
(* indexed Merkle proof from a leaf stream (IndexedMerkleProof::new),      *)
(* structural validation (verify), root reconstruction (root_hash) and     *)
(* the validating deserializer (TryFrom<...DeserializeValidator>); of the  *)
(* sync leaper component (node/src/components/sync_leaper.rs); and of      *)
(* MainReactor::validate_instruction (reactor/main_reactor/validate.rs).   *)
(*                                                                         *)
(* Spec         whole calls on proofs: new, try_from, verify, root_hash.   *)
(* SpecDescent  the descent loops of compute_expected_proof_length,        *)
(*              verify and root_hash, one iteration per step.              *)
(* SpecFold     the pairwise fold of new(), one combination per step.      *)
(* SpecLeaper   the sync leaper, one event or call per step.               *)
(* SpecValidate the reactor, one validate_instruction call per step.       *)
(*                                                                         *)
(* Digests are modelled as an ideal hash: the digest of a byte string is   *)
(* the string itself between two markers, so two digests are equal exactly *)
(* when the hashed inputs are equal.  A digest given as data (a leaf, a    *)
(* proof element read from the wire) is a one-element sequence <<256+b>>.  *)
(* Every digest is a flat sequence of integers.                            *)
(***************************************************************************)
EXTENDS Integers, Sequences, FiniteSets, TLC

VARIABLES
    leaves,     \* the leaf stream given to new()
    index,      \* the index given to new()
    decoded,    \* the fields read from the wire, or written in a struct literal
    proof,      \* the IndexedMerkleProof in memory, if origin says there is one
    origin,     \* what is at hand: an input not yet used, or where proof came from
    last,       \* the result of the last operation
    dproof,     \* the proof whose functions are called one loop iteration at a time
    dcall,      \* the call in progress on dproof: function, position, locals
    dwalk,      \* per function, the (n, i, pivot) of every iteration it has run
    dret,       \* per function, what its call on dproof returned
    fstack,     \* tree_fold1: the frames of inner() on the call stack
    fret,       \* tree_fold1: the value being returned to the frame on top
    fpos,       \* tree_fold1: the next leaf the stream will give
    leap_activity,  \* SyncLeaper.leap_activity
    levent,     \* the event or call the sync leaper handled last
    lprev,      \* leap_activity as it was before that
    lout,       \* what the handling returned, or that it panicked
    last_progress,  \* MainReactor.last_progress
    vcall       \* the last call of validate_instruction: what it met and returned

merkleVars == <<leaves, index, decoded, proof, origin, last>>

descentVars == <<dproof, dcall, dwalk, dret>>

foldVars == <<fstack, fret, fpos>>

leaperVars == <<leap_activity, levent, lprev, lout>>

validateVars == <<last_progress, vcall>>

vars == <<merkleVars, descentVars, foldVars, leaperVars, validateVars>>

\* What the steps of one part of the model leave alone.
notMerkle == <<descentVars, foldVars, leaperVars, validateVars>>

notDescent == <<merkleVars, foldVars, leaperVars, validateVars>>

notFold == <<descentVars, leaperVars, validateVars>>

notLeaper == <<merkleVars, descentVars, foldVars, validateVars>>

notValidate == <<merkleVars, descentVars, foldVars, leaperVars>>

(***************************************************************************)
(* Bounds of the model.                                                    *)
(***************************************************************************)
MaxLeaves == 7
MaxCount == 9
MaxProofLen == 5

\* The descent loops are run on every index and count of this many bits.
InputBits == 4

\* The longest leaf stream new() is run on one call of a closure at a time.
MaxFoldLeaves == 16

\* The sync leaper: node ids, sync leap identifiers, and the longest list of
\* peers an AttemptLeap event carries.
NumPeers == 3
NumIds == 2
MaxPeersToAsk == 2

\* The reactor: timestamps are 0..MaxTime.
MaxTime == 3

(***************************************************************************)
(* Digests.                                                                *)
(***************************************************************************)
\* Blake2bHash([b; 32]): a digest given as a literal byte array.
LiteralHash(b) == <<256 + b>>

\* util::SENTINEL2, the raw root of the empty leaf sequence.
SENTINEL2 == LiteralHash(2)

\* VarBlake2b over the bytes fed by update(): an ideal hash of its input.
Blake2b(data) == <<-1>> \o data \o <<-2>>

\* util::hash_pair(a, b): the digest of a followed by b.
HashPair(a, b) == Blake2b(a \o b)

RECURSIVE LeBytes(_, _)
\* The k low-order bytes of x, least significant first.
LeBytes(x, k) == IF k = 0 THEN <<>> ELSE <<x % 256>> \o LeBytes(x \div 256, k - 1)

\* u64::to_le_bytes
ToLeBytes(x) == LeBytes(x, 8)

(***************************************************************************)
(* The canonical tree shape: pivot, expected proof length, path.           *)
(***************************************************************************)
RECURSIVE BitLen(_)
BitLen(x) == IF x = 0 THEN 0 ELSE 1 + BitLen(x \div 2)

\* u64::leading_zeros
LeadingZeros(x) == 64 - BitLen(x)

\* let pivot = 1u64 << (63 - (n - 1).leading_zeros());
Pivot(n) == 2 ^ (63 - LeadingZeros(n - 1))

RECURSIVE ExpectedLengthLoop(_, _, _)
\* The while loop of compute_expected_proof_length.
ExpectedLengthLoop(l, n, i) ==
    IF n > 1
    THEN LET pivot == Pivot(n)
         IN  IF i < pivot
             THEN ExpectedLengthLoop(l + 1, pivot, i)
             ELSE ExpectedLengthLoop(l + 1, n - pivot, i - pivot)
    ELSE l

\* ComputeExpectedProofLength without the early return for count == 0.
ComputeExpectedProofLengthNoZeroCase(p) ==
    ExpectedLengthLoop(1, p.count, p.index)

ComputeExpectedProofLength(p) ==
    IF p.count = 0 THEN 0 ELSE ExpectedLengthLoop(1, p.count, p.index)

(***************************************************************************)
(* Values: proofs and the results of the operations.                       *)
(***************************************************************************)
\* struct IndexedMerkleProof { index, count, merkle_proof }
MakeProof(i, c, mp) == [index |-> i, count |-> c, merkle_proof |-> mp]

\* The proof every result carries when it carries none.
NoProof == MakeProof(0, 0, <<>>)

\* A result of an operation: its tag (Ok or the error variant) and the
\* fields of the variant; fields a variant does not have are zero.
Res(op, tag) ==
    [op |-> op, tag |-> tag, count |-> 0, index |-> 0,
     expected_proof_length |-> 0, actual_proof_length |-> 0,
     hash |-> <<>>, value |-> NoProof]

(***************************************************************************)
(* IndexedMerkleProof::root_hash                                           *)
(***************************************************************************)
\* BitOr1 that leaves the path as it is.
BitOr1Dropped(path) == path

\* path |= 1
BitOr1(path) == IF path % 2 = 1 THEN path ELSE path + 1

RECURSIVE PathLoop(_, _, _)
\* The while loop of root_hash: the path to the leaf, one bit per descent
\* step, shifted in from the right; 1 means "hash right".
PathLoop(path, n, i) ==
    IF n > 1
    THEN LET shifted == path * 2
             pivot == Pivot(n)
         IN  IF i < pivot
             THEN PathLoop(shifted, pivot, i)
             ELSE PathLoop(BitOr1(shifted), n - pivot, i - pivot)
    ELSE path

\* HashStep with the meaning of the path bit inverted.
HashStepInverted(acc, hash, path) ==
    IF path % 2 = 1 THEN Blake2b(acc \o hash) ELSE Blake2b(hash \o acc)

\* One iteration of `for hash in hashes`: the next accumulator.
HashStep(acc, hash, path) ==
    IF path % 2 = 1 THEN Blake2b(hash \o acc) ELSE Blake2b(acc \o hash)

RECURSIVE HashLoop(_, _, _)
\* The for loop of root_hash over the proof elements after the first.
HashLoop(acc, hashes, path) ==
    IF hashes = <<>>
    THEN acc
    ELSE HashLoop(HashStep(acc, Head(hashes), path), Tail(hashes), path \div 2)

\* RootHash with the zero digest, not SENTINEL2, as the raw root of an empty
\* proof vector.
RootHashZeroForEmpty(p) ==
    LET raw_root ==
            IF p.merkle_proof # <<>>
            THEN HashLoop(Head(p.merkle_proof), Tail(p.merkle_proof),
                          PathLoop(0, p.count, p.index))
            ELSE LiteralHash(0)
    IN  HashPair(ToLeBytes(p.count), raw_root)

RootHash(p) ==
    LET raw_root ==
            IF p.merkle_proof # <<>>
            THEN HashLoop(Head(p.merkle_proof), Tail(p.merkle_proof),
                          PathLoop(0, p.count, p.index))
            ELSE SENTINEL2
    IN  HashPair(ToLeBytes(p.count), raw_root)

(***************************************************************************)
(* IndexedMerkleProof::verify                                              *)
(***************************************************************************)
\* Verify with the length check made before the index check.
VerifyLengthFirst(p) ==
    LET expected_proof_length == ComputeExpectedProofLength(p)
    IN  IF Len(p.merkle_proof) # expected_proof_length
        THEN [Res("verify", "UnexpectedProofLength") EXCEPT
                  !.count = p.count, !.index = p.index,
                  !.expected_proof_length = expected_proof_length,
                  !.actual_proof_length = Len(p.merkle_proof)]
        ELSE IF ~((p.count = 0 /\ p.index = 0) \/ p.index < p.count)
             THEN [Res("verify", "IndexOutOfBounds") EXCEPT
                       !.count = p.count, !.index = p.index]
             ELSE Res("verify", "Ok")

Verify(p) ==
    IF ~((p.count = 0 /\ p.index = 0) \/ p.index < p.count)
    THEN [Res("verify", "IndexOutOfBounds") EXCEPT
              !.count = p.count, !.index = p.index]
    ELSE LET expected_proof_length == ComputeExpectedProofLength(p)
         IN  IF Len(p.merkle_proof) # expected_proof_length
             THEN [Res("verify", "UnexpectedProofLength") EXCEPT
                       !.count = p.count, !.index = p.index,
                       !.expected_proof_length = expected_proof_length,
                       !.actual_proof_length = Len(p.merkle_proof)]
             ELSE Res("verify", "Ok")

(***************************************************************************)
(* TryFrom<IndexedMerkleProofDeserializeValidator> and the serde encoding  *)
(***************************************************************************)
\* TryFrom without the check of the proof length.
TryFromNoLengthCheck(value) ==
    LET candidate == MakeProof(value.index, value.count, value.merkle_proof)
    IN  IF candidate.index > candidate.count
        THEN Res("try_from", "IncorrectIndexedMerkleProof")
        ELSE [Res("try_from", "Ok") EXCEPT !.value = candidate]

TryFrom(value) ==
    LET candidate == MakeProof(value.index, value.count, value.merkle_proof)
    IN  IF candidate.index > candidate.count
           \/ Len(candidate.merkle_proof) # ComputeExpectedProofLength(candidate)
        THEN Res("try_from", "IncorrectIndexedMerkleProof")
        ELSE [Res("try_from", "Ok") EXCEPT !.value = candidate]

\* derive(Serialize): the struct as its named fields, in declaration order.
Serialize(p) ==
    << <<"index", p.index>>, <<"count", p.count>>,
       <<"merkle_proof", p.merkle_proof>> >>

\* The value of the field called name in a serialized struct.
Field(doc, name) == doc[CHOOSE k \in 1..Len(doc) : doc[k][1] = name][2]

\* derive(Deserialize) with try_from = "IndexedMerkleProofDeserializeValidator":
\* the fields are read into the validator, which is then converted.
Deserialize(doc) ==
    TryFrom([index |-> Field(doc, "index"), count |-> Field(doc, "count"),
             merkle_proof |-> Field(doc, "merkle_proof")])

(***************************************************************************)
(* IndexedMerkleProof::new                                                 *)
(***************************************************************************)
\* enum HashOrProof, paired with the number of leaves the node covers.
\* (count, Hash(hash))
HashNode(c, h) == [count |-> c, kind |-> "Hash", hash |-> h, proof |-> <<>>]

\* (count, Proof(proof))
ProofNode(c, pr) == [count |-> c, kind |-> "Proof", hash |-> <<>>, proof |-> pr]

\* The fold node after unreachable!() is hit: the call has panicked.
PanicNode == [count |-> 0, kind |-> "Panic", hash |-> <<>>, proof |-> <<>>]

\* LeafNode with the target taken one leaf early.
LeafNodeOffByOne(i, hash, idx) ==
    IF i + 1 = idx THEN ProofNode(1, <<hash>>) ELSE HashNode(1, hash)

\* LeafNode with every leaf from the index on taken as the target.
LeafNodeFromIndex(i, hash, idx) ==
    IF i >= idx THEN ProofNode(1, <<hash>>) ELSE HashNode(1, hash)

\* The closure given to map(): leaf number i (from 0) as a fold node.
LeafNode(i, hash, idx) ==
    IF i = idx THEN ProofNode(1, <<hash>>) ELSE HashNode(1, hash)

\* Combine with the two subtree hashes fed to hash_pair in the wrong order.
CombineSwapped(x, y) ==
    CASE x.kind = "Hash" /\ y.kind = "Hash" ->
             HashNode(x.count + y.count, HashPair(y.hash, x.hash))
      [] x.kind = "Hash" /\ y.kind = "Proof" ->
             ProofNode(x.count + y.count, Append(y.proof, x.hash))
      [] x.kind = "Proof" /\ y.kind = "Hash" ->
             ProofNode(x.count + y.count, Append(x.proof, y.hash))
      [] OTHER -> PanicNode

\* Combine with the sibling put in front of the partial proof.
CombinePrepend(x, y) ==
    CASE x.kind = "Hash" /\ y.kind = "Hash" ->
             HashNode(x.count + y.count, HashPair(x.hash, y.hash))
      [] x.kind = "Hash" /\ y.kind = "Proof" ->
             ProofNode(x.count + y.count, <<x.hash>> \o y.proof)
      [] x.kind = "Proof" /\ y.kind = "Hash" ->
             ProofNode(x.count + y.count, <<y.hash>> \o x.proof)
      [] OTHER -> PanicNode

\* Combine with the count of two plain nodes taken from the left one alone.
CombineCountLeft(x, y) ==
    CASE x.kind = "Hash" /\ y.kind = "Hash" ->
             HashNode(x.count, HashPair(x.hash, y.hash))
      [] x.kind = "Hash" /\ y.kind = "Proof" ->
             ProofNode(x.count + y.count, Append(y.proof, x.hash))
      [] x.kind = "Proof" /\ y.kind = "Hash" ->
             ProofNode(x.count + y.count, Append(x.proof, y.hash))
      [] OTHER -> PanicNode

\* The closure given to tree_fold1(): two adjacent fold nodes into one.
Combine(x, y) ==
    CASE x.kind = "Hash" /\ y.kind = "Hash" ->
             HashNode(x.count + y.count, HashPair(x.hash, y.hash))
      [] x.kind = "Hash" /\ y.kind = "Proof" ->
             ProofNode(x.count + y.count, Append(y.proof, x.hash))
      [] x.kind = "Proof" /\ y.kind = "Hash" ->
             ProofNode(x.count + y.count, Append(x.proof, y.hash))
      [] OTHER -> PanicNode

\* Itertools::tree_fold1 over items[pos..]: a step's outcome is Ok(val),
\* Err(Some(val)) or Err(None), with the position the iterator is left at.
FoldOut(tag, val, pos) == [tag |-> tag, val |-> val, pos |-> pos]

\* inner0: the next two items combined, or what is left of the stream.
Inner0(items, pos) ==
    IF pos > Len(items)
    THEN FoldOut("ErrNone", PanicNode, pos)
    ELSE IF pos + 1 > Len(items)
         THEN FoldOut("ErrSome", items[pos], pos + 1)
         ELSE FoldOut("Ok", Combine(items[pos], items[pos + 1]), pos + 2)

RECURSIVE Inner(_, _, _), InnerLoop(_, _, _, _, _)
\* inner: a tree of height stop + 1, or what the stream could give.
Inner(stop, items, pos) ==
    LET first == Inner0(items, pos)
    IN  IF first.tag # "Ok"
        THEN first
        ELSE InnerLoop(0, stop, first.val, items, first.pos)

\* `for height in 0..stop` of inner, with x the tree built so far.
InnerLoop(height, stop, x, items, pos) ==
    IF height >= stop
    THEN FoldOut("Ok", x, pos)
    ELSE LET next == IF height = 0
                     THEN Inner0(items, pos)
                     ELSE Inner(height, items, pos)
         IN  CASE next.tag = "Ok" ->
                      InnerLoop(height + 1, stop, Combine(x, next.val), items, next.pos)
               [] next.tag = "ErrNone" -> FoldOut("ErrSome", x, next.pos)
               [] OTHER -> FoldOut("ErrSome", Combine(x, next.val), next.pos)

\* tree_fold1: None for an empty stream, else the one node that remains.
\* The outermost inner() is given a height no stream reaches.
TreeFold1(items) == Inner(Len(items) + 1, items, 1)

\* The stream after enumerate().map(..).
FoldItems(lvs, idx) == [k \in 1..Len(lvs) |-> LeafNode(k - 1, lvs[k], idx)]

\* EmptyResult without the check of the index.
EmptyResultAnyIndex(idx) ==
    [Res("new", "Ok") EXCEPT !.value = MakeProof(0, 0, <<>>)]

\* The None arm of `match maybe_count_and_proof`: the stream was empty.
EmptyResult(idx) ==
    IF idx # 0
    THEN [Res("new", "EmptyProofMustHaveIndex") EXCEPT !.index = idx]
    ELSE [Res("new", "Ok") EXCEPT !.value = MakeProof(0, 0, <<>>)]

\* `match maybe_count_and_proof`: the result of new() from what the fold left.
NewResult(maybe_count_and_proof, idx) ==
    LET node == maybe_count_and_proof.val
    IN  CASE maybe_count_and_proof.tag = "ErrNone" -> EmptyResult(idx)
          [] maybe_count_and_proof.tag = "ErrSome" /\ node.kind = "Hash" ->
                 [Res("new", "IndexOutOfBounds") EXCEPT
                      !.count = node.count, !.index = idx]
          [] maybe_count_and_proof.tag = "ErrSome" /\ node.kind = "Proof" ->
                 [Res("new", "Ok") EXCEPT
                      !.value = MakeProof(idx, node.count, node.proof)]
          [] OTHER -> Res("new", "Panic")

New(lvs, idx) == NewResult(TreeFold1(FoldItems(lvs, idx)), idx)

(***************************************************************************)
(* The canonical shape as the design states it (sections 4.2 and 4.4), for *)
(* the computation over the whole leaf list and for the properties: the    *)
(* pivot is the largest power of two strictly less than the size, and the  *)
(* expected proof length is 0 for no leaves, else 1 + the descent steps.   *)
(***************************************************************************)
PowersOfTwoUpTo(n) == {2 ^ e : e \in 0..BitLen(n)}

LargestPowerOfTwoBelow(n) ==
    CHOOSE q \in PowersOfTwoUpTo(n) :
        q < n /\ \A r \in PowersOfTwoUpTo(n) : r < n => r <= q

RECURSIVE DescentSteps(_, _)
DescentSteps(i, n) ==
    IF n <= 1 THEN 0
    ELSE LET q == LargestPowerOfTwoBelow(n)
         IN  1 + (IF i < q THEN DescentSteps(i, q) ELSE DescentSteps(i - q, n - q))

LengthByDescent(i, c) == IF c = 0 THEN 0 ELSE 1 + DescentSteps(i, c)

\* The index check of validate passes for p.
IndexInBounds(p) == (p.count = 0 /\ p.index = 0) \/ p.index < p.count

(***************************************************************************)
(* Reference computations.                                                 *)
(***************************************************************************)
RECURSIVE ComputeRawRootFromProof(_, _, _)
\* compute_raw_root_from_proof of the tests: the recursion over the split.
ComputeRawRootFromProof(idx, leaf_count, pr) ==
    IF leaf_count = 0 THEN SENTINEL2
    ELSE IF leaf_count = 1 THEN pr[1]
    ELSE LET half == Pivot(leaf_count)
             last_ == Len(pr) - 1
             prefix == SubSeq(pr, 1, last_)
         IN  IF idx < half
             THEN HashPair(ComputeRawRootFromProof(idx, half, prefix), pr[last_ + 1])
             ELSE HashPair(pr[last_ + 1],
                           ComputeRawRootFromProof(idx - half, leaf_count - half, prefix))

\* reference_root_from_proof of the tests.
ReferenceRootFromProof(idx, count, pr) ==
    HashPair(ToLeBytes(count), ComputeRawRootFromProof(idx, count, pr))

RECURSIVE RawRoot(_)
\* The raw root of a leaf list by the split rule: the leaf itself, or the
\* roots of [0, pivot) and [pivot, count) combined; the sentinel if empty.
RawRoot(lvs) ==
    IF lvs = <<>> THEN SENTINEL2
    ELSE IF Len(lvs) = 1 THEN lvs[1]
    ELSE LET pivot == LargestPowerOfTwoBelow(Len(lvs))
         IN  HashPair(RawRoot(SubSeq(lvs, 1, pivot)),
                      RawRoot(SubSeq(lvs, pivot + 1, Len(lvs))))

\* util::hash_merkle_tree: the raw root bound to the number of leaves.
HashMerkleTree(lvs) == HashPair(ToLeBytes(Len(lvs)), RawRoot(lvs))

(***************************************************************************)
(* The inputs.                                                             *)
(***************************************************************************)
\* The digests leaves and proof elements are drawn from.
Hashes == {LiteralHash(0), LiteralHash(1)}

\* The zero digest the tests fill their proofs with.
ZeroHash == LiteralHash(0)

\* All sequences over S of length at most n.
SeqsUpTo(S, n) == UNION {[1..k -> S] : k \in 0..n}

LeafStreams == SeqsUpTo(Hashes \cup {LiteralHash(3)}, MaxLeaves)

\* Indexes asked of new(): in and out of the bounds of every stream.
BuildIndexes == 0..(MaxLeaves + 1)

\* The index and count fields: all small values, and those of the tests.
IndexValues == 0..MaxCount \cup {23, 1235}

CountValues == 0..MaxCount \cup {5647}

\* The proof vectors: all short ones, and the 13 and 14 zero digests of the
\* unexpected_proof_length test.
ProofVectors ==
    SeqsUpTo(Hashes, MaxProofLen) \cup {[k \in 1..n |-> ZeroHash] : n \in {13, 14}}

(***************************************************************************)
(* SyncLeaper (node/src/components/sync_leaper.rs).  A leap activity is    *)
(* its identifier and the state of every peer registered in it; a peer not *)
(* in its map is "NotAsked".  Option<LeapActivity> is a record whose held  *)
(* says whether it is Some.                                                *)
(***************************************************************************)
Peers == 1..NumPeers

SyncLeapIdentifiers == 1..NumIds

\* enum PeerState; Fetched stands for Fetched(item) with any item.
PeerStates == {"RequestSent", "Rejected", "CouldntFetch", "Fetched"}

\* leap_activity: None
NoActivity ==
    [held |-> FALSE, id |-> 0, peers |-> [p \in Peers |-> "NotAsked"]]

\* The elements of a list.
Range(list) == {list[k] : k \in 1..Len(list)}

\* Some(LeapActivity::new(id, peers_to_ask.map(|peer| (peer, RequestSent))))
NewActivity(id, peers_to_ask) ==
    [held |-> TRUE, id |-> id,
     peers |-> [p \in Peers |->
                   IF p \in Range(peers_to_ask) THEN "RequestSent" ELSE "NotAsked"]]

\* LeapActivity::register_peer(peer): a peer not yet in the map is put in it
\* as RequestSent and returned; for one that is, nothing changes.
RegisterPeer(activity, peer) ==
    IF activity.peers[peer] = "NotAsked"
    THEN [activity |-> [activity EXCEPT !.peers[peer] = "RequestSent"],
          registered |-> TRUE]
    ELSE [activity |-> activity, registered |-> FALSE]

RECURSIVE RegisterPeers(_, _, _)
\* peers_to_ask.iter().filter_map(|peer| leap_activity.register_peer(*peer))
\* .collect(): the activity after, and the peers that were registered.
RegisterPeers(activity, peers_to_ask, not_asked_yet) ==
    IF peers_to_ask = <<>>
    THEN [activity |-> activity, peers |-> not_asked_yet]
    ELSE LET registration == RegisterPeer(activity, Head(peers_to_ask))
         IN  RegisterPeers(registration.activity, Tail(peers_to_ask),
                           IF registration.registered
                           THEN Append(not_asked_yet, Head(peers_to_ask))
                           ELSE not_asked_yet)

\* What a call on the sync leaper gave: the variant returned (or "Panic"),
\* the Error variant or the panic message, and the peers of
\* FetchSyncLeapFromPeers.
LeaperOut(op, tag, detail, peers_to_fetch) ==
    [op |-> op, tag |-> tag, detail |-> detail, peers |-> peers_to_fetch]

\* RegisterLeapAttempt that, asked for another identifier than the one in
\* progress, starts over with that one.
RegisterLeapAttemptStartsOver(activity, id, peers_to_ask) ==
    IF peers_to_ask = <<>>
    THEN [activity |-> activity,
          out |-> LeaperOut("register_leap_attempt", "DoNothing", "", <<>>)]
    ELSE IF activity.held /\ activity.id = id
    THEN LET registered == RegisterPeers(activity, peers_to_ask, <<>>)
         IN  [activity |-> registered.activity,
              out |-> IF registered.peers = <<>>
                      THEN LeaperOut("register_leap_attempt", "DoNothing", "", <<>>)
                      ELSE LeaperOut("register_leap_attempt",
                                     "FetchSyncLeapFromPeers", "", registered.peers)]
    ELSE [activity |-> NewActivity(id, peers_to_ask),
          out |-> LeaperOut("register_leap_attempt", "FetchSyncLeapFromPeers", "",
                            peers_to_ask)]

\* SyncLeaper::register_leap_attempt: leap_activity after, and the outcome.
RegisterLeapAttempt(activity, id, peers_to_ask) ==
    IF peers_to_ask = <<>>
    THEN [activity |-> activity,
          out |-> LeaperOut("register_leap_attempt", "DoNothing", "", <<>>)]
    ELSE IF activity.held
    THEN IF activity.id # id
         THEN [activity |-> activity,
               out |-> LeaperOut("register_leap_attempt", "DoNothing", "", <<>>)]
         ELSE LET registered == RegisterPeers(activity, peers_to_ask, <<>>)
              IN  [activity |-> registered.activity,
                   out |-> IF registered.peers = <<>>
                           THEN LeaperOut("register_leap_attempt", "DoNothing", "",
                                          <<>>)
                           ELSE LeaperOut("register_leap_attempt",
                                          "FetchSyncLeapFromPeers", "",
                                          registered.peers)]
    ELSE [activity |-> NewActivity(id, peers_to_ask),
          out |-> LeaperOut("register_leap_attempt", "FetchSyncLeapFromPeers", "",
                            peers_to_ask)]

\* FetchResult<SyncLeap>: the item from storage or from a peer, the fetcher
\* error Rejected, or another fetcher error; all but the first name a peer.
FetchResults ==
    {[kind |-> "FromStorage", peer |-> 0]}
        \cup [kind : {"FromPeer", "Rejected", "OtherError"}, peer : Peers]

\* The state a fetch result puts its peer in.
PeerStateOf(fetch_result) ==
    CASE fetch_result.kind = "FromPeer" -> "Fetched"
      [] fetch_result.kind = "Rejected" -> "Rejected"
      [] OTHER -> "CouldntFetch"

\* The panic! of the arm of a fetch result: before the return for a peer that
\* is not in the map (first), and at the end of the arm (second).
PanicOf(fetch_result) ==
    CASE fetch_result.kind = "FromPeer" -> <<"4", "5">>
      [] fetch_result.kind = "Rejected" -> <<"6", "7">>
      [] OTHER -> <<"8", "9">>

\* SyncLeaper::fetch_received: leap_activity after, and Ok, the Err variant,
\* or the panic the call ends in.
FetchReceived(activity, id, fetch_result) ==
    IF ~activity.held
    THEN [activity |-> activity,
          out |-> LeaperOut("fetch_received", "Panic", "1", <<>>)]
    ELSE IF activity.id # id
    THEN [activity |-> activity,
          out |-> LeaperOut("fetch_received", "Panic", "2", <<>>)]
    ELSE IF fetch_result.kind = "FromStorage"
    THEN [activity |-> activity,
          out |-> LeaperOut("fetch_received", "Err", "FetchedSyncLeapFromStorage",
                            <<>>)]
    ELSE IF activity.peers[fetch_result.peer] = "NotAsked"
    THEN [activity |-> activity,
          out |-> LeaperOut("fetch_received", "Panic", PanicOf(fetch_result)[1],
                            <<>>)]
    ELSE [activity |->
              [activity EXCEPT !.peers[fetch_result.peer] = PeerStateOf(fetch_result)],
          out |-> LeaperOut("fetch_received", "Panic", PanicOf(fetch_result)[2],
                            <<>>)]

\* An event or call, with the fields it does not have at zero.
LeaperEvent(kind, id, peers_to_ask, fetch_result) ==
    [kind |-> kind, id |-> id, peers_to_ask |-> peers_to_ask,
     fetch_result |-> fetch_result]

NoFetchResult == [kind |-> "none", peer |-> 0]

(***************************************************************************)
(* MainReactor::validate_instruction (node/src/reactor/main_reactor/       *)
(* validate.rs).  A call meets the reactor and its components in some      *)
(* condition: env has one field for every condition the code tests.        *)
(***************************************************************************)
Timestamps == 0..MaxTime

\* What a call can meet.
ValidateEnvs ==
    [switch_block : BOOLEAN,            \* self.switch_block.is_some()
     shutdown : BOOLEAN,                \* self.should_shutdown_for_upgrade()
     headers : BOOLEAN,                 \* recent_switch_block_headers.last().is_some()
     era : {"none", "behind", "reached"},   \* consensus.current_era(): None,
                                        \* below next_block_era_id(), or not below
     weights : BOOLEAN,                 \* next_era_validator_weights().is_some()
     key : BOOLEAN,                     \* weights.contains_key(public_key())
     full_ttl : BOOLEAN,                \* have_full_ttl_of_deploys(from_height)
     upgrade : BOOLEAN,                 \* should_upgrade_after(era_id)
     consensus_eras : {"None", "SomeEmpty", "SomeEffects"},
                                        \* consensus.create_required_eras(..)
     consensus_progress : Timestamps]   \* consensus.last_progress()

\* MainReactor::create_required_eras: Ok(None), Ok(Some(effects)) with
\* effects empty or not, or Err(msg); and whether consensus was asked to
\* create the eras.
CreateRequiredEras(env) ==
    IF ~env.headers THEN [result |-> "OkNone", asked |-> FALSE]
    ELSE IF env.era = "reached" THEN [result |-> "OkSomeEmpty", asked |-> FALSE]
    ELSE IF ~env.weights THEN [result |-> "Err", asked |-> FALSE]
    ELSE IF ~env.key THEN [result |-> "OkNone", asked |-> FALSE]
    ELSE IF ~env.full_ttl THEN [result |-> "OkNone", asked |-> FALSE]
    ELSE IF env.upgrade THEN [result |-> "OkNone", asked |-> FALSE]
    ELSE [result |-> CASE env.consensus_eras = "None" -> "OkNone"
                       [] env.consensus_eras = "SomeEmpty" -> "OkSomeEmpty"
                       [] OTHER -> "OkSomeEffects",
          asked |-> TRUE]

\* What a call of validate_instruction did: the conditions it met that it
\* tested first, what create_required_eras gave if it was called ("none" if
\* not), the reactor's last_progress before and after, and the instruction.
ValidateCall(env, eras, asked, before, after, instruction) ==
    [switch_block |-> env.switch_block, shutdown |-> env.shutdown,
     consensus_progress |-> env.consensus_progress,
     eras |-> eras, asked |-> asked,
     before |-> before, last_progress |-> after, instruction |-> instruction]

\* ValidateInstruction with last_progress set to that of consensus whether
\* it is later or not.
ValidateInstructionAlwaysSets(env, progress) ==
    IF ~env.switch_block
    THEN ValidateCall(env, "none", FALSE, progress, progress, "NonSwitchBlock")
    ELSE IF env.shutdown
    THEN ValidateCall(env, "none", FALSE, progress, progress, "ShutdownForUpgrade")
    ELSE LET created == CreateRequiredEras(env)
         IN  CASE created.result \in {"OkSomeEmpty", "OkSomeEffects"} ->
                      ValidateCall(env, created.result, created.asked, progress,
                                   env.consensus_progress,
                                   IF created.result = "OkSomeEmpty"
                                   THEN "CheckLater" ELSE "Do")
               [] created.result = "OkNone" ->
                      ValidateCall(env, created.result, created.asked, progress,
                                   progress, "KeepUp")
               [] OTHER ->
                      ValidateCall(env, created.result, created.asked, progress,
                                   progress, "Fatal")

\* MainReactor::validate_instruction on a reactor whose last_progress is
\* progress.
ValidateInstruction(env, progress) ==
    IF ~env.switch_block
    THEN ValidateCall(env, "none", FALSE, progress, progress, "NonSwitchBlock")
    ELSE IF env.shutdown
    THEN ValidateCall(env, "none", FALSE, progress, progress, "ShutdownForUpgrade")
    ELSE LET created == CreateRequiredEras(env)
         IN  CASE created.result \in {"OkSomeEmpty", "OkSomeEffects"} ->
                      ValidateCall(env, created.result, created.asked, progress,
                                   IF env.consensus_progress > progress
                                   THEN env.consensus_progress ELSE progress,
                                   IF created.result = "OkSomeEmpty"
                                   THEN "CheckLater" ELSE "Do")
               [] created.result = "OkNone" ->
                      ValidateCall(env, created.result, created.asked, progress,
                                   progress, "KeepUp")
               [] OTHER ->
                      ValidateCall(env, created.result, created.asked, progress,
                                   progress, "Fatal")

\* No call made yet.
NoValidateCall ==
    [switch_block |-> FALSE, shutdown |-> FALSE, consensus_progress |-> 0,
     eras |-> "none", asked |-> FALSE, before |-> 0, last_progress |-> 0,
     instruction |-> "none"]

(***************************************************************************)
(* The values of the parts of the model that a specification does not run. *)
(***************************************************************************)
\* The functions whose descent loop is run step by step.
DescentFns == {"compute_expected_proof_length", "verify", "root_hash"}

\* No call in progress; else the function, where it is, and its locals.
NoCall == [fn |-> "none", pc |-> "idle", l |-> 0, n |-> 0, i |-> 0, path |-> 0]

DescentIdle ==
    /\ dproof = NoProof
    /\ dcall = NoCall
    /\ dwalk = [f \in DescentFns |-> <<>>]
    /\ dret = [f \in DescentFns |-> Res("none", "none")]

FoldIdle ==
    /\ fstack = <<>>
    /\ fret = FoldOut("none", PanicNode, 0)
    /\ fpos = 0

LeaperIdle ==
    /\ leap_activity = NoActivity
    /\ levent = LeaperEvent("none", 0, <<>>, NoFetchResult)
    /\ lprev = NoActivity
    /\ lout = LeaperOut("none", "none", "", <<>>)

ValidateIdle ==
    /\ last_progress = 0
    /\ vcall = NoValidateCall

MerkleIdle ==
    /\ leaves = <<>>
    /\ index = 0
    /\ decoded = NoProof
    /\ proof = NoProof
    /\ origin = "idle"
    /\ last = Res("none", "none")

(***************************************************************************)
(* The state machine: one call per step.                                   *)
(***************************************************************************)
Init ==
    /\ DescentIdle
    /\ FoldIdle
    /\ LeaperIdle
    /\ ValidateIdle
    /\ proof = NoProof
    /\ last = Res("none", "none")
    /\ \/ /\ origin = "stream"
          /\ leaves \in LeafStreams
          /\ index \in BuildIndexes
          /\ decoded = NoProof
       \/ /\ origin = "decoded"
          /\ leaves = <<>>
          /\ index = 0
          /\ decoded \in {MakeProof(i, c, mp) :
                               i \in IndexValues, c \in CountValues, mp \in ProofVectors}

InMemory == origin \in {"new", "try_from", "literal"}

\* IndexedMerkleProof::new(leaves, index)
CallNew ==
    /\ origin = "stream"
    /\ last' = New(leaves, index)
    /\ proof' = last'.value
    /\ origin' = IF last'.tag = "Ok" THEN "new" ELSE "new_failed"
    /\ UNCHANGED <<leaves, index, decoded>>
    /\ UNCHANGED notMerkle

\* IndexedMerkleProof::try_from(validator), as run by the deserializer.
CallTryFrom ==
    /\ origin = "decoded"
    /\ last' = TryFrom(decoded)
    /\ proof' = last'.value
    /\ origin' = IF last'.tag = "Ok" THEN "try_from" ELSE "try_from_failed"
    /\ UNCHANGED <<leaves, index, decoded>>
    /\ UNCHANGED notMerkle

\* IndexedMerkleProof { index, count, merkle_proof }: a struct literal, which
\* code of the crate (its tests) can write with any fields.
StructLiteral ==
    /\ origin = "decoded"
    /\ proof' = MakeProof(decoded.index, decoded.count, decoded.merkle_proof)
    /\ origin' = "literal"
    /\ last' = Res("literal", "Ok")
    /\ UNCHANGED <<leaves, index, decoded>>
    /\ UNCHANGED notMerkle

\* proof.verify()
CallVerify ==
    /\ InMemory
    /\ last' = Verify(proof)
    /\ UNCHANGED <<leaves, index, decoded, proof, origin>>
    /\ UNCHANGED notMerkle

\* proof.root_hash()
CallRootHash ==
    /\ InMemory
    /\ last' = [Res("root_hash", "Ok") EXCEPT !.hash = RootHash(proof)]
    /\ UNCHANGED <<leaves, index, decoded, proof, origin>>
    /\ UNCHANGED notMerkle

\* serde: the proof serialized, and the document deserialized again.
CallSerdeRoundTrip ==
    /\ InMemory
    /\ last' = [Deserialize(Serialize(proof)) EXCEPT !.op = "round_trip"]
    /\ UNCHANGED <<leaves, index, decoded, proof, origin>>
    /\ UNCHANGED notMerkle

Next ==
    \/ CallNew
    \/ CallTryFrom
    \/ StructLiteral
    \/ CallVerify
    \/ CallRootHash
    \/ CallSerdeRoundTrip

Spec == Init /\ [][Next]_vars

(***************************************************************************)
(* The descent loops, one iteration per step.  A call keeps its locals in  *)
(* dcall; an iteration whose arithmetic would overflow (a shift by 64 or   *)
(* more, a subtraction below zero) leaves the call at pc = "panicked".     *)
(***************************************************************************)
\* The words the index and the count are drawn from.
Words == 0..(2 ^ InputBits - 1)

\* A proof vector of n digests, not all equal.
DescentProofVector(n) == [k \in 1..n |-> LiteralHash(k % 2)]

DescentProofs ==
    {MakeProof(i, c, DescentProofVector(n)) :
        i \in Words, c \in Words, n \in 0..(InputBits + 1)}

\* ShiftAmount one too small: the pivot comes out halved.
ShiftAmountOneLess(n) == 62 - LeadingZeros(n - 1)

\* 63 - (n - 1).leading_zeros(): the amount the pivot is shifted by.
ShiftAmount(n) == 63 - LeadingZeros(n - 1)

\* The locals of a call after an iteration that overflowed.
Panicked(c) == [c EXCEPT !.pc = "panicked"]

\* ExpectedLoopBody with the index left as it is on the way right.
ExpectedLoopBodyKeepIndex(c) ==
    IF ShiftAmount(c.n) \notin 0..63 THEN Panicked(c)
    ELSE LET pivot == 2 ^ ShiftAmount(c.n)
         IN  IF c.i < pivot
             THEN [c EXCEPT !.n = pivot, !.l = c.l + 1]
             ELSE IF c.n < pivot THEN Panicked(c)
             ELSE [c EXCEPT !.n = c.n - pivot, !.l = c.l + 1]

\* One iteration of the while loop of compute_expected_proof_length.
ExpectedLoopBody(c) ==
    IF ShiftAmount(c.n) \notin 0..63 THEN Panicked(c)
    ELSE LET pivot == 2 ^ ShiftAmount(c.n)
         IN  IF c.i < pivot
             THEN [c EXCEPT !.n = pivot, !.l = c.l + 1]
             ELSE IF c.n < pivot \/ c.i < pivot THEN Panicked(c)
             ELSE [c EXCEPT !.n = c.n - pivot, !.i = c.i - pivot, !.l = c.l + 1]

\* PathLoopBody with the test of the index against the pivot inverted.
PathLoopBodyInvertedTest(c) ==
    IF ShiftAmount(c.n) \notin 0..63 THEN Panicked(c)
    ELSE LET shifted == c.path * 2
             pivot == 2 ^ ShiftAmount(c.n)
         IN  IF c.i >= pivot
             THEN [c EXCEPT !.path = shifted, !.n = pivot]
             ELSE IF c.n < pivot \/ c.i < pivot THEN Panicked(c)
             ELSE [c EXCEPT !.path = BitOr1(shifted),
                            !.n = c.n - pivot, !.i = c.i - pivot]

\* One iteration of the while loop of root_hash.
PathLoopBody(c) ==
    IF ShiftAmount(c.n) \notin 0..63 THEN Panicked(c)
    ELSE LET shifted == c.path * 2
             pivot == 2 ^ ShiftAmount(c.n)
         IN  IF c.i < pivot
             THEN [c EXCEPT !.path = shifted, !.n = pivot]
             ELSE IF c.n < pivot \/ c.i < pivot THEN Panicked(c)
             ELSE [c EXCEPT !.path = BitOr1(shifted),
                            !.n = c.n - pivot, !.i = c.i - pivot]

\* The locals of a call of fn on p as its loop is reached.
LoopEntry(fn, p) ==
    [fn |-> fn, pc |-> "loop", l |-> 1, n |-> p.count, i |-> p.index, path |-> 0]

\* What the call returns once its loop is left.
LoopResult(c, p) ==
    CASE c.fn = "compute_expected_proof_length" ->
             [Res(c.fn, "Ok") EXCEPT !.expected_proof_length = c.l]
      [] c.fn = "verify" ->
             IF Len(p.merkle_proof) # c.l
             THEN [Res("verify", "UnexpectedProofLength") EXCEPT
                       !.count = p.count, !.index = p.index,
                       !.expected_proof_length = c.l,
                       !.actual_proof_length = Len(p.merkle_proof)]
             ELSE Res("verify", "Ok")
      [] OTHER ->
             [Res("root_hash", "Ok") EXCEPT
                  !.hash = HashPair(ToLeBytes(p.count),
                                    HashLoop(Head(p.merkle_proof),
                                             Tail(p.merkle_proof), c.path))]

\* What the call returns without reaching its loop, if it does so.
EarlyResult(fn, p) ==
    CASE fn = "compute_expected_proof_length" /\ p.count = 0 ->
             [Res(fn, "Ok") EXCEPT !.expected_proof_length = 0]
      [] fn = "verify" /\ ~((p.count = 0 /\ p.index = 0) \/ p.index < p.count) ->
             [Res("verify", "IndexOutOfBounds") EXCEPT
                  !.count = p.count, !.index = p.index]
      [] fn = "verify" /\ p.count = 0 ->
             IF Len(p.merkle_proof) # 0
             THEN [Res("verify", "UnexpectedProofLength") EXCEPT
                       !.count = p.count, !.index = p.index,
                       !.actual_proof_length = Len(p.merkle_proof)]
             ELSE Res("verify", "Ok")
      [] fn = "root_hash" /\ p.merkle_proof = <<>> ->
             [Res("root_hash", "Ok") EXCEPT
                  !.hash = HashPair(ToLeBytes(p.count), SENTINEL2)]
      [] OTHER -> Res("none", "none")

InitDescent ==
    /\ MerkleIdle
    /\ FoldIdle
    /\ LeaperIdle
    /\ ValidateIdle
    /\ dproof \in DescentProofs
    /\ dcall = NoCall
    /\ dwalk = [f \in DescentFns |-> <<>>]
    /\ dret = [f \in DescentFns |-> Res("none", "none")]

\* A function is called on dproof: it returns at once, or reaches its loop.
DescentCall(fn) ==
    /\ dcall.pc = "idle"
    /\ dret[fn].op = "none"
    /\ IF EarlyResult(fn, dproof).op # "none"
       THEN /\ dret' = [dret EXCEPT ![fn] = EarlyResult(fn, dproof)]
            /\ dcall' = NoCall
       ELSE /\ dcall' = LoopEntry(fn, dproof)
            /\ dret' = dret
    /\ UNCHANGED <<dproof, dwalk>>
    /\ UNCHANGED notDescent

\* while n > 1 { .. }: one iteration.
DescentIterate ==
    /\ dcall.pc = "loop"
    /\ dcall.n > 1
    /\ dcall' = IF dcall.fn = "root_hash"
                THEN PathLoopBody(dcall)
                ELSE ExpectedLoopBody(dcall)
    /\ dwalk' = [dwalk EXCEPT
                     ![dcall.fn] = Append(@, <<dcall.n, dcall.i, dcall'.n>>)]
    /\ UNCHANGED <<dproof, dret>>
    /\ UNCHANGED notDescent

\* The loop is left and the call returns.
DescentReturn ==
    /\ dcall.pc = "loop"
    /\ ~(dcall.n > 1)
    /\ dret' = [dret EXCEPT ![dcall.fn] = LoopResult(dcall, dproof)]
    /\ dcall' = NoCall
    /\ UNCHANGED <<dproof, dwalk>>
    /\ UNCHANGED notDescent

NextDescent ==
    \/ \E fn \in DescentFns : DescentCall(fn)
    \/ DescentIterate
    \/ DescentReturn

SpecDescent == InitDescent /\ [][NextDescent]_vars

\* Every call returns: an iteration or a return that can be made is made.
FairSpecDescent == SpecDescent /\ WF_vars(DescentIterate) /\ WF_vars(DescentReturn)

(***************************************************************************)
(* new(), with tree_fold1 run one call of the closures at a time.  The     *)
(* frames of inner() on the call stack are in fstack, each with its stop,  *)
(* the height its loop is at and its tree x; a value on its way back to    *)
(* the frame on top is in fret; fpos is the next leaf of the stream.       *)
(***************************************************************************)
\* The leaf streams the fold is run on: all short ones, and one of every
\* length up to MaxFoldLeaves, long enough for inner() to call inner().
FoldStreams ==
    SeqsUpTo(Hashes, MaxLeaves)
        \cup {[k \in 1..n |-> LiteralHash(k % 2)] : n \in 0..MaxFoldLeaves}

\* A frame of inner(stop, ..): `for height in 0..stop`, with x so far.
Frame(stop, height, x) == [stop |-> stop, height |-> height, x |-> x]

\* Nothing is on its way back to a frame.
NoFoldOut == FoldOut("none", PanicNode, 0)

InitFold ==
    /\ DescentIdle
    /\ FoldIdle
    /\ LeaperIdle
    /\ ValidateIdle
    /\ origin = "stream"
    /\ leaves \in FoldStreams
    /\ index \in 0..(Len(leaves) + 1)
    /\ decoded = NoProof
    /\ proof = NoProof
    /\ last = Res("none", "none")

\* inner(stop) is entered at stream position pos: its inner0 gives the tree
\* x of a new frame, or the stream ends and inner returns at once.
EnterInner(stop, pos) ==
    LET first == Inner0(FoldItems(leaves, index), pos)
    IN  /\ fpos' = first.pos
        /\ IF first.tag = "Ok"
           THEN /\ fstack' = Append(fstack, Frame(stop, 0, first.val))
                /\ fret' = NoFoldOut
           ELSE /\ fstack' = fstack
                /\ fret' = first

\* new() is called: tree_fold1 calls inner(usize::MAX), a height no stream
\* of the model reaches.
FoldStart ==
    /\ origin = "stream"
    /\ fret = NoFoldOut
    /\ origin' = "folding"
    /\ EnterInner(Len(leaves) + 1, 1)
    /\ UNCHANGED <<leaves, index, decoded, proof, last>>
    /\ UNCHANGED notFold

\* The frame on top goes on with its loop: it is done and returns Ok(x), or
\* asks for the next tree, by inner0 at height 0 and by inner(height) above.
FoldIterate ==
    /\ origin = "folding"
    /\ fstack # <<>>
    /\ fret = NoFoldOut
    /\ LET top == fstack[Len(fstack)]
       IN  IF top.height >= top.stop
           THEN /\ fstack' = SubSeq(fstack, 1, Len(fstack) - 1)
                /\ fret' = FoldOut("Ok", top.x, fpos)
                /\ fpos' = fpos
           ELSE IF top.height = 0
                THEN /\ fret' = Inner0(FoldItems(leaves, index), fpos)
                     /\ fpos' = fret'.pos
                     /\ fstack' = fstack
                ELSE EnterInner(top.height, fpos)
    /\ UNCHANGED <<leaves, index, decoded, proof, origin, last>>
    /\ UNCHANGED notFold

\* `match next` in the frame on top: Ok(y) is combined into x and the loop
\* goes on; at the end of the stream the frame returns Err(Some(..)).
FoldResume ==
    /\ origin = "folding"
    /\ fstack # <<>>
    /\ fret # NoFoldOut
    /\ LET top == fstack[Len(fstack)]
           below == SubSeq(fstack, 1, Len(fstack) - 1)
       IN  CASE fret.tag = "Ok" ->
                    /\ fstack' = Append(below, Frame(top.stop, top.height + 1,
                                                     Combine(top.x, fret.val)))
                    /\ fret' = NoFoldOut
             [] fret.tag = "ErrNone" ->
                    /\ fstack' = below
                    /\ fret' = FoldOut("ErrSome", top.x, fpos)
             [] OTHER ->
                    /\ fstack' = below
                    /\ fret' = FoldOut("ErrSome", Combine(top.x, fret.val), fpos)
    /\ UNCHANGED <<leaves, index, decoded, proof, origin, last, fpos>>
    /\ UNCHANGED notFold

\* The outermost inner() has returned: `match maybe_count_and_proof`.
FoldFinish ==
    /\ origin = "folding"
    /\ fstack = <<>>
    /\ fret # NoFoldOut
    /\ last' = NewResult(fret, index)
    /\ proof' = last'.value
    /\ origin' = IF last'.tag = "Ok" THEN "new" ELSE "new_failed"
    /\ UNCHANGED <<leaves, index, decoded, fstack, fret, fpos>>
    /\ UNCHANGED notFold

NextFold ==
    \/ FoldStart
    \/ FoldIterate
    \/ FoldResume
    \/ FoldFinish

SpecFold == InitFold /\ [][NextFold]_vars

(***************************************************************************)
(* The sync leaper, one event or call per step.  The component is open:    *)
(* any event can reach handle_event in any state, and the reactor can ask  *)
(* leap_status at any time.  A panic ends the process: no step follows.    *)
(***************************************************************************)
\* The lists of peers an AttemptLeap event carries.
PeersToAsk == SeqsUpTo(Peers, MaxPeersToAsk)

InitLeaper ==
    /\ MerkleIdle
    /\ DescentIdle
    /\ FoldIdle
    /\ ValidateIdle
    /\ leap_activity = NoActivity
    /\ levent = LeaperEvent("none", 0, <<>>, NoFetchResult)
    /\ lprev = NoActivity
    /\ lout = LeaperOut("none", "none", "", <<>>)

\* The process has not panicked.
LeaperRunning == lout.tag # "Panic"

\* handle_event(Event::AttemptLeap { sync_leap_identifier, peers_to_ask }):
\* register_leap_attempt, then a fetch from every peer of its outcome.
AttemptLeap(id, peers_to_ask) ==
    /\ LeaperRunning
    /\ leap_activity' = RegisterLeapAttempt(leap_activity, id, peers_to_ask).activity
    /\ lout' = RegisterLeapAttempt(leap_activity, id, peers_to_ask).out
    /\ levent' = LeaperEvent("AttemptLeap", id, peers_to_ask, NoFetchResult)
    /\ lprev' = leap_activity
    /\ UNCHANGED notLeaper

\* handle_event(Event::FetchedSyncLeapFromPeer { sync_leap_identifier,
\* fetch_result }): fetch_received, whose result handle_event drops.
FetchedSyncLeapFromPeer(id, fetch_result) ==
    /\ LeaperRunning
    /\ leap_activity' = FetchReceived(leap_activity, id, fetch_result).activity
    /\ lout' = FetchReceived(leap_activity, id, fetch_result).out
    /\ levent' = LeaperEvent("FetchedSyncLeapFromPeer", id, <<>>, fetch_result)
    /\ lprev' = leap_activity
    /\ UNCHANGED notLeaper

\* leap_status(): Idle without an activity; else the status of the activity,
\* which is dropped if that status is not active.  LeapActivity::status() is
\* not part of the sources: it can say either.
LeapStatus ==
    /\ LeaperRunning
    /\ IF ~leap_activity.held
       THEN /\ lout' = LeaperOut("leap_status", "Idle", "", <<>>)
            /\ leap_activity' = leap_activity
       ELSE \E active \in BOOLEAN :
                IF active
                THEN /\ lout' = LeaperOut("leap_status", "Active", "", <<>>)
                     /\ leap_activity' = leap_activity
                ELSE /\ lout' = LeaperOut("leap_status", "NotActive", "", <<>>)
                     /\ leap_activity' = NoActivity
    /\ levent' = LeaperEvent("leap_status", 0, <<>>, NoFetchResult)
    /\ lprev' = leap_activity
    /\ UNCHANGED notLeaper

NextLeaper ==
    \/ \E id \in SyncLeapIdentifiers, peers_to_ask \in PeersToAsk :
           AttemptLeap(id, peers_to_ask)
    \/ \E id \in SyncLeapIdentifiers, fetch_result \in FetchResults :
           FetchedSyncLeapFromPeer(id, fetch_result)
    \/ LeapStatus

SpecLeaper == InitLeaper /\ [][NextLeaper]_vars

(***************************************************************************)
(* The reactor's validate_instruction, one call per step, each call        *)
(* meeting the reactor and its components in any condition.                *)
(***************************************************************************)
InitValidate ==
    /\ MerkleIdle
    /\ DescentIdle
    /\ FoldIdle
    /\ LeaperIdle
    /\ last_progress \in Timestamps
    /\ vcall = NoValidateCall

CallValidateInstruction ==
    /\ \E env \in ValidateEnvs : vcall' = ValidateInstruction(env, last_progress)
    /\ last_progress' = vcall'.last_progress
    /\ UNCHANGED notValidate

NextValidate == CallValidateInstruction

SpecValidate == InitValidate /\ [][NextValidate]_vars

(***************************************************************************)
(* Properties.                                                             *)
(***************************************************************************)

\* C1: the root hash of a proof built by new() over a non-empty leaf stream
\* is the root computed over the whole leaf list by the split-and-combine
\* rule and bound to the count.
RoundTrip ==
    (origin = "new" /\ leaves # <<>> /\ last.op = "root_hash")
        => last.hash = HashMerkleTree(leaves)

\* C1 witness: the root of a proof for leaf 4 of 6 leaves, not all equal, has
\* been computed.
RoundTripWitness ==
    /\ origin = "new"
    /\ last.op = "root_hash"
    /\ Len(leaves) = 6
    /\ index = 4
    /\ leaves[5] # leaves[6]
    /\ leaves[1] # leaves[2]

\* C2: every proof the deserializer materializes passes verify().
DecodedPassesVerify ==
    (origin = "try_from" /\ last.op = "verify") => last.tag = "Ok"

\* C3: every proof new() returns passes verify(): its index is in bounds
\* (or index = count = 0 with an empty proof) and its proof vector has the
\* expected length for its index and count.
BuiltPassesVerify ==
    origin = "new" =>
        /\ \/ proof.index < proof.count
           \/ proof.index = 0 /\ proof.count = 0 /\ proof.merkle_proof = <<>>
        /\ Len(proof.merkle_proof) = LengthByDescent(proof.index, proof.count)
        /\ Len(proof.merkle_proof) = ComputeExpectedProofLength(proof)
        /\ last.op = "verify" => last.tag = "Ok"

\* C3 witness: a proof built for leaf 3 of 5 has been verified.
BuiltPassesVerifyWitness ==
    /\ origin = "new"
    /\ last.op = "verify"
    /\ Len(leaves) = 5
    /\ index = 3

\* C4: a proof built from a non-empty stream has the stream's length as its
\* count, the requested index as its index, and the leaf at that index as
\* its first proof element.
BuiltFields ==
    (origin = "new" /\ leaves # <<>>) =>
        /\ index < Len(leaves)
        /\ proof.count = Len(leaves)
        /\ proof.index = index
        /\ proof.merkle_proof # <<>>
        /\ proof.merkle_proof[1] = leaves[index + 1]

\* C4 witness: new() has just returned a proof for leaf 2 of 6, a leaf that
\* differs from its neighbours.
BuiltFieldsWitness ==
    /\ origin = "new"
    /\ last.op = "new"
    /\ Len(leaves) = 6
    /\ index = 2
    /\ leaves[3] # leaves[2]
    /\ leaves[3] # leaves[4]

\* C5: for a non-empty stream and an index at or past its length, new()
\* fails with IndexOutOfBounds carrying the stream's length and the index.
BuildIndexOutOfBounds ==
    (origin \in {"new", "new_failed"} /\ leaves # <<>> /\ index >= Len(leaves)) =>
        /\ origin = "new_failed"
        /\ last = [Res("new", "IndexOutOfBounds") EXCEPT
                       !.count = Len(leaves), !.index = index]

\* C5 witness: new() has failed for index 5 on a stream of 3 leaves.
BuildIndexOutOfBoundsWitness ==
    /\ origin = "new_failed"
    /\ Len(leaves) = 3
    /\ index = 5
    /\ last.tag = "IndexOutOfBounds"

\* C6: for an empty stream new() fails with EmptyProofMustHaveIndex{index}
\* if the index is not 0, and returns the proof {0, 0, []} if it is.
BuildEmpty ==
    (origin \in {"new", "new_failed"} /\ leaves = <<>>) =>
        IF index # 0
        THEN /\ origin = "new_failed"
             /\ last = [Res("new", "EmptyProofMustHaveIndex") EXCEPT !.index = index]
        ELSE /\ origin = "new"
             /\ proof = MakeProof(0, 0, <<>>)

\* C6 witness: new() has failed for index 2 on the empty stream.
BuildEmptyWitness ==
    /\ origin = "new_failed"
    /\ leaves = <<>>
    /\ index = 2
    /\ last.tag = "EmptyProofMustHaveIndex"

\* C7: verify() returns IndexOutOfBounds exactly when neither count = 0 and
\* index = 0 nor index < count holds, whatever the proof length, and the
\* error carries the proof's own count and index.
VerifyIndexFirst ==
    last.op = "verify" =>
        /\ last.tag = "IndexOutOfBounds" <=> ~IndexInBounds(proof)
        /\ last.tag = "IndexOutOfBounds" =>
               last = [Res("verify", "IndexOutOfBounds") EXCEPT
                           !.count = proof.count, !.index = proof.index]

\* C7 witness: verify() has reported index 23 of count 0 as out of bounds
\* for a proof whose length is not the expected one either.
VerifyIndexFirstWitness ==
    /\ last.op = "verify"
    /\ last.tag = "IndexOutOfBounds"
    /\ proof.index = 23
    /\ proof.count = 0
    /\ Len(proof.merkle_proof) = 3

\* C8: when the index check passes, verify() returns Ok exactly when the
\* proof length is the expected one (0 for count 0, else 1 + the descent
\* steps; 14 for index 1235 of 5647), and otherwise UnexpectedProofLength
\* with the count, the index, the expected and the actual length.
VerifyLength ==
    (last.op = "verify" /\ IndexInBounds(proof)) =>
        LET expected == LengthByDescent(proof.index, proof.count)
        IN  /\ last.tag = "Ok" <=> Len(proof.merkle_proof) = expected
            /\ last.tag # "Ok" =>
                   last = [Res("verify", "UnexpectedProofLength") EXCEPT
                               !.count = proof.count, !.index = proof.index,
                               !.expected_proof_length = expected,
                               !.actual_proof_length = Len(proof.merkle_proof)]
            /\ proof.count = 0 => expected = 0
            /\ (proof.index = 1235 /\ proof.count = 5647) => expected = 14

\* C8 witness: verify() has reported 13 digests for index 1235 of 5647,
\* where 14 are expected.
VerifyLengthWitness ==
    /\ last.op = "verify"
    /\ last.tag = "UnexpectedProofLength"
    /\ proof.index = 1235
    /\ proof.count = 5647
    /\ last.expected_proof_length = 14
    /\ last.actual_proof_length = 13

\* C9: the deserializer rejects the decoded fields with
\* IncorrectIndexedMerkleProof exactly when index > count or the proof
\* length is not the expected one; otherwise it materializes exactly the
\* decoded fields; and a proof in memory that it accepts, once serialized
\* and deserialized, is the same proof.
DecoderAccepts ==
    /\ last.op = "try_from" =>
           LET rejected == \/ decoded.index > decoded.count
                           \/ Len(decoded.merkle_proof)
                                  # LengthByDescent(decoded.index, decoded.count)
           IN  /\ last.tag = "IncorrectIndexedMerkleProof" <=> rejected
               /\ last.tag = "Ok" <=> ~rejected
               /\ last.tag = "Ok" =>
                      /\ origin = "try_from"
                      /\ proof = MakeProof(decoded.index, decoded.count,
                                           decoded.merkle_proof)
               /\ last.tag # "Ok" => origin = "try_from_failed"
    /\ last.op = "round_trip" =>
           /\ origin \in {"new", "try_from"} => last.tag = "Ok"
           /\ last.tag = "Ok" => last.value = proof

\* C9 witness: a proof materialized from the decoded fields index 5, count 7
\* has been serialized and deserialized again.
DecoderAcceptsWitness ==
    /\ origin = "try_from"
    /\ last.op = "round_trip"
    /\ proof.index = 5
    /\ proof.count = 7
    /\ Len(proof.merkle_proof) = 4

\* C10: for a proof vector of the expected length, and any index and count
\* (also index >= count), root_hash() is the root the recursive reference
\* of the tests computes.
RootHashAgreesWithRecursion ==
    (last.op = "root_hash"
        /\ Len(proof.merkle_proof) = ComputeExpectedProofLength(proof)) =>
        last.hash = ReferenceRootFromProof(proof.index, proof.count, proof.merkle_proof)

\* C10 witness: root_hash() has run on a written proof with index 23 >= count
\* 7, whose path turns right at every step, over digests that are not all
\* equal.
RootHashAgreesWithRecursionWitness ==
    /\ origin = "literal"
    /\ last.op = "root_hash"
    /\ proof.index = 23
    /\ proof.count = 7
    /\ Len(proof.merkle_proof) = ComputeExpectedProofLength(proof)
    /\ Len(proof.merkle_proof) = 3
    /\ proof.merkle_proof[1] # proof.merkle_proof[2]

\* C11: for every index and count of w bits (w = InputBits, whatever the
\* relation between the two) the expected proof length is at most w + 1,
\* and so at most 65: while it is counted, when compute_expected_proof_length
\* returns it, and when verify reports it.
ExpectedLengthBound ==
    /\ dcall.fn \in {"compute_expected_proof_length", "verify"} =>
           dcall.l <= InputBits + 1
    /\ \A f \in {"compute_expected_proof_length", "verify"} :
           /\ dret[f].expected_proof_length <= InputBits + 1
           /\ dret[f].expected_proof_length <= 65

\* C11 witness: compute_expected_proof_length has returned InputBits + 1,
\* the largest length there is, for an index that is not below the count's
\* first pivot.
ExpectedLengthBoundWitness ==
    /\ dret["compute_expected_proof_length"].op # "none"
    /\ dret["compute_expected_proof_length"].expected_proof_length = InputBits + 1
    /\ dproof.index > 0

\* C12: the root hash of a proof with an empty proof vector is the digest of
\* the eight little-endian bytes of its count followed by SENTINEL2, whatever
\* its index; for the empty proof {index: 0, count: 0, proof: []} that is the
\* digest of eight zero bytes and the sentinel, and verify() accepts it.
EmptyProofRoot ==
    /\ (InMemory /\ last.op = "root_hash" /\ proof.merkle_proof = <<>>)
           => last.hash = HashPair(ToLeBytes(proof.count), SENTINEL2)
    /\ (InMemory /\ last.op = "root_hash" /\ proof = MakeProof(0, 0, <<>>))
           => last.hash = <<-1, 0, 0, 0, 0, 0, 0, 0, 0, 258, -2>>
    /\ (InMemory /\ last.op = "verify" /\ proof = MakeProof(0, 0, <<>>))
           => last.tag = "Ok"

\* C12 witness: the root hash has been taken of a proof with no digests, a
\* count of 5647 and an index that is not zero.
EmptyProofRootWitness ==
    /\ origin = "literal"
    /\ last.op = "root_hash"
    /\ proof.merkle_proof = <<>>
    /\ proof.count = 5647
    /\ proof.index = 23
    /\ last.hash = <<-1, 15, 22, 0, 0, 0, 0, 0, 0, 258, -2>>

\* Subtree sizes at and around a power of two the model can compute with;
\* which one goes by the proof, and over all proofs it is every one of them.
PivotProbes(p) ==
    LET k == 1 + ((p.index + p.count) % 28)
    IN  {2 ^ k, 2 ^ k + 1, 2 ^ (k + 1) - 1}

\* 1 << (63 - leading_zeros(n - 1)) is a power of two below n, no power of
\* two below n is larger, and n is at most twice it.
PivotSplits(n) ==
    /\ ShiftAmount(n) \in 0..63
    /\ 2 ^ ShiftAmount(n) = Pivot(n)
    /\ Pivot(n) \in PowersOfTwoUpTo(n)
    /\ \A r \in PowersOfTwoUpTo(n) : r < n => r <= Pivot(n)
    /\ 1 <= Pivot(n)
    /\ Pivot(n) < n
    /\ n <= 2 * Pivot(n)

\* C13: for every subtree size n >= 2 a descent loop meets, the pivot it
\* computes is the largest power of two strictly below n, so that
\* 1 <= pivot < n <= 2 * pivot; and the loops of root_hash and of
\* compute_expected_proof_length, run on the same index and count, go through
\* the same sequence of (n, i, next n).
SameDescent ==
    /\ (dcall.pc = "loop" /\ dcall.n > 1)
           => /\ PivotSplits(dcall.n)
              /\ Pivot(dcall.n) = LargestPowerOfTwoBelow(dcall.n)
    /\ (\A f \in DescentFns : dret[f].op = "none" /\ dwalk[f] = <<>>)
           => \A n \in PivotProbes(dproof) : PivotSplits(n)
    /\ ( /\ dret["root_hash"].op # "none"
         /\ dret["compute_expected_proof_length"].op # "none"
         /\ dproof.merkle_proof # <<>> )
           => dwalk["root_hash"] = dwalk["compute_expected_proof_length"]
    /\ (dret["verify"].tag \in {"Ok", "UnexpectedProofLength"}
            /\ dret["compute_expected_proof_length"].op # "none")
           => dwalk["verify"] = dwalk["compute_expected_proof_length"]

\* C13 witness: both loops have run to their end on a count that is not a
\* power of two, turning right at least once, in three iterations or more.
SameDescentWitness ==
    /\ dret["root_hash"].op # "none"
    /\ dret["compute_expected_proof_length"].op # "none"
    /\ dproof.merkle_proof # <<>>
    /\ Len(dwalk["root_hash"]) >= 3
    /\ dwalk["root_hash"] = dwalk["compute_expected_proof_length"]
    /\ dproof.count = 11
    /\ dproof.index = 9

\* What a call of fn on p returns, computed in one go.
Returned(fn, p) ==
    CASE fn = "compute_expected_proof_length" ->
             [Res(fn, "Ok") EXCEPT
                  !.expected_proof_length = ComputeExpectedProofLength(p)]
      [] fn = "verify" -> Verify(p)
      [] OTHER -> [Res("root_hash", "Ok") EXCEPT !.hash = RootHash(p)]

\* No call has aborted; the iteration about to be made shifts by 0 to 63 bits
\* and subtracts the pivot only from an n and an i that are not below it;
\* every iteration made has left n smaller, and at least 1; what a call has
\* returned is the value or the typed error of the function.
DescentSafe ==
    /\ dcall.pc # "panicked"
    /\ (dcall.pc = "loop" /\ dcall.n > 1)
           => /\ ShiftAmount(dcall.n) \in 0..63
              /\ dcall.i >= Pivot(dcall.n) => dcall.n - Pivot(dcall.n) >= 1
              /\ dcall.i >= 0
    /\ \A f \in DescentFns : \A k \in 1..Len(dwalk[f]) :
           /\ dwalk[f][k][3] < dwalk[f][k][1]
           /\ dwalk[f][k][3] >= 1
    /\ \A f \in DescentFns :
           dret[f].op # "none" => dret[f] = Returned(f, dproof)

\* C15 as stated: no call aborts, and every loop is left at n == 1.
DescentEndsAtOne ==
    /\ dcall.pc # "panicked"
    /\ (dcall.pc = "loop" /\ ~(dcall.n > 1)) => dcall.n = 1

\* C15: compute_expected_proof_length, verify and root_hash are total: for
\* every index and count (index >= count included) and every length of the
\* proof vector no shift or subtraction overflows, every iteration leaves
\* n smaller, the loop is left at n == 1, or at n == 0 without an iteration
\* when the count is 0, and the call returns its value or typed error.
DescentTotal ==
    /\ []DescentSafe
    /\ []((dcall.pc = "loop" /\ ~(dcall.n > 1))
              => \/ dcall.n = 1
                 \/ dcall.n = 0 /\ dproof.count = 0 /\ dwalk[dcall.fn] = <<>>)
    /\ [][(dcall.pc = "loop" /\ dcall'.pc = "loop") => dcall'.n < dcall.n]_vars
    /\ (dcall.pc = "loop") ~> (dcall.pc = "idle")

\* C15 witness: root_hash has returned on a proof whose index is beyond its
\* count and whose vector is longer than the tree is deep, after a loop of
\* three iterations, and verify has returned its typed error.
DescentTotalWitness ==
    /\ dproof.count = 15
    /\ dproof.index = 15
    /\ Len(dproof.merkle_proof) = 5
    /\ dret["root_hash"].tag = "Ok"
    /\ Len(dwalk["root_hash"]) = 3
    /\ dret["verify"].tag = "IndexOutOfBounds"
    /\ dret["compute_expected_proof_length"].expected_proof_length = 4

\* The packed path word and the expected proof length of index j of c leaves.
Position(j, c) ==
    <<PathLoop(0, c, j), ComputeExpectedProofLength(MakeProof(j, c, <<>>))>>

\* C16: when the loop of root_hash is left on an index below the count, the
\* path word it has packed and the number of levels it has gone down are
\* those of no other index below that count: the sequence of hash-left and
\* hash-right decisions, with its length, is injective in the index.
PositionBinding ==
    ( /\ dcall.fn = "root_hash"
      /\ dcall.pc = "loop"
      /\ ~(dcall.n > 1)
      /\ dproof.index < dproof.count )
        => /\ <<dcall.path, 1 + Len(dwalk["root_hash"])>>
                  = Position(dproof.index, dproof.count)
           /\ \A j \in 0..(dproof.count - 1) :
                  j # dproof.index
                      => Position(j, dproof.count)
                             # <<dcall.path, 1 + Len(dwalk["root_hash"])>>
           /\ dcall.i = 0

\* C16 witness: the loop of root_hash is left for index 9 of 11 leaves with
\* the path right, left, right packed as binary 101.
PositionBindingWitness ==
    /\ dcall.fn = "root_hash"
    /\ dcall.pc = "loop"
    /\ dcall.n = 1
    /\ dproof.count = 11
    /\ dproof.index = 9
    /\ dcall.path = 5
    /\ Len(dwalk["root_hash"]) = 3

\* The fold nodes that exist: the trees of the frames and the one returned.
TargetsAlive ==
    Cardinality({k \in 1..Len(fstack) : fstack[k].x.kind = "Proof"})
        + (IF fret.tag \in {"Ok", "ErrSome"} /\ fret.val.kind = "Proof"
           THEN 1 ELSE 0)

\* C14: while new() folds its leaf stream at most one fold node is a Proof,
\* exactly one once the leaf at the index has been taken from the stream,
\* and no combination has hit unreachable!(); the node the fold ends with is
\* a Proof if and only if index < count, its count being the number of
\* leaves; and new() returns what the fold in one go gives.
FoldOneTarget ==
    /\ TargetsAlive <= 1
    /\ \A k \in 1..Len(fstack) : fstack[k].x.kind # "Panic"
    /\ fret.tag \in {"Ok", "ErrSome"} => fret.val.kind # "Panic"
    /\ last.tag # "Panic"
    /\ origin = "folding" => (TargetsAlive = 1 <=> index < fpos - 1)
    /\ (origin # "stream" /\ fstack = <<>> /\ fret # NoFoldOut)
           => /\ fret = TreeFold1(FoldItems(leaves, index))
              /\ fret.tag \in {"ErrNone", "ErrSome"}
              /\ fret.tag = "ErrNone" <=> leaves = <<>>
              /\ fret.tag = "ErrSome"
                     => /\ fret.val.count = Len(leaves)
                        /\ fret.val.kind = "Proof" <=> index < fret.val.count
    /\ origin \in {"new", "new_failed"} => last = New(leaves, index)

\* C14 witness: a fold three frames deep holds the Proof node in the frame
\* in the middle, with leaves still to come.
FoldOneTargetWitness ==
    /\ origin = "folding"
    /\ Len(fstack) = 3
    /\ fstack[1].x.kind = "Hash"
    /\ fstack[2].x.kind = "Proof"
    /\ fstack[3].x.kind = "Hash"
    /\ fpos <= Len(leaves)
    /\ TargetsAlive = 1

\* The fetch event handled last could not be matched: no activity was in
\* progress, or one for another identifier, or the item came from storage,
\* or the peer was not registered in the activity.
FetchUnmatched ==
    /\ lout.op = "fetch_received"
    /\ \/ ~lprev.held
       \/ lprev.id # levent.id
       \/ levent.fetch_result.kind = "FromStorage"
       \/ lprev.peers[levent.fetch_result.peer] = "NotAsked"

\* The Error variant of a fetch event that cannot be matched.
ErrorOfUnmatched ==
    IF ~lprev.held THEN "UnexpectedSyncLeapResponse"
    ELSE IF lprev.id # levent.id THEN "SyncLeapIdentifierMismatch"
    ELSE IF levent.fetch_result.kind = "FromStorage" THEN "FetchedSyncLeapFromStorage"
    ELSE "ResponseFromUnknownPeer"

\* C17: a FetchedSyncLeapFromPeer event that cannot be matched does not abort
\* the component: fetch_received returns the Error variant of the case and
\* leaves the leap activity as it was.
UnmatchedFetchIsTypedError ==
    FetchUnmatched
        => /\ lout.tag = "Err"
           /\ lout.detail = ErrorOfUnmatched
           /\ leap_activity = lprev

\* C18: a FetchedSyncLeapFromPeer event for the identifier in progress, from
\* a peer registered in the activity, makes fetch_received return Ok with
\* that peer's state set by the fetch result and nothing else changed.
MatchedFetchReturnsOk ==
    ( /\ lout.op = "fetch_received"
      /\ lprev.held
      /\ lprev.id = levent.id
      /\ levent.fetch_result.kind # "FromStorage"
      /\ lprev.peers[levent.fetch_result.peer] # "NotAsked" )
        => /\ lout.tag = "Ok"
           /\ leap_activity =
                  [lprev EXCEPT !.peers[levent.fetch_result.peer] =
                                    PeerStateOf(levent.fetch_result)]

\* What register_leap_attempt leaves behind and returns, case by case.
RegisterCases ==
    lout.op = "register_leap_attempt"
        => /\ levent.peers_to_ask = <<>>
                  => lout.tag = "DoNothing" /\ leap_activity = lprev
           /\ (lprev.held /\ lprev.id # levent.id)
                  => lout.tag = "DoNothing" /\ leap_activity = lprev
           /\ (~lprev.held /\ levent.peers_to_ask # <<>>)
                  => /\ leap_activity.held
                     /\ leap_activity.id = levent.id
                     /\ \A p \in Peers :
                            leap_activity.peers[p] =
                                IF \E k \in 1..Len(levent.peers_to_ask) :
                                       levent.peers_to_ask[k] = p
                                THEN "RequestSent" ELSE "NotAsked"
                     /\ lout.tag = "FetchSyncLeapFromPeers"
                     /\ lout.peers = levent.peers_to_ask

\* C19: the sync leaper holds one leap activity or none, and an activity held
\* keeps its identifier from one step to the next; register_leap_attempt
\* with no peers, or with another identifier than that of the activity in
\* progress, returns DoNothing and changes nothing; with no activity in
\* progress and peers given it creates the activity for the identifier with
\* those peers, all RequestSent, and returns FetchSyncLeapFromPeers of them.
OneLeapActivity ==
    /\ []RegisterCases
    /\ [](IF leap_activity.held
          THEN leap_activity.id \in SyncLeapIdentifiers
          ELSE leap_activity = NoActivity)
    /\ [][(leap_activity.held /\ leap_activity'.held)
              => leap_activity'.id = leap_activity.id]_vars

\* C19 witness: with an activity for identifier 1 in progress, an attempt
\* for identifier 2 with two peers has returned DoNothing.
OneLeapActivityWitness ==
    /\ lout.op = "register_leap_attempt"
    /\ lprev.held
    /\ lprev.id = 1
    /\ levent.id = 2
    /\ Len(levent.peers_to_ask) = 2
    /\ lout.tag = "DoNothing"
    /\ leap_activity.id = 1

\* What the last call of validate_instruction did to last_progress.
ValidateCases ==
    vcall.instruction # "none"
        => /\ vcall.last_progress = last_progress
           /\ last_progress >= vcall.before
           /\ last_progress # vcall.before
                  => /\ vcall.switch_block
                     /\ ~vcall.shutdown
                     /\ vcall.eras \in {"OkSomeEmpty", "OkSomeEffects"}
                     /\ last_progress = vcall.consensus_progress
                     /\ vcall.consensus_progress > vcall.before
           /\ (vcall.switch_block /\ ~vcall.shutdown
                   /\ vcall.eras \in {"OkSomeEmpty", "OkSomeEffects"}
                   /\ vcall.consensus_progress > vcall.before)
                  => last_progress = vcall.consensus_progress
           /\ vcall.instruction = "NonSwitchBlock" <=> ~vcall.switch_block
           /\ vcall.instruction = "ShutdownForUpgrade"
                  <=> (vcall.switch_block /\ vcall.shutdown)
           /\ vcall.instruction \in {"NonSwitchBlock", "ShutdownForUpgrade"}
                  => /\ vcall.eras = "none"
                     /\ ~vcall.asked
                     /\ last_progress = vcall.before

\* C20: over any sequence of calls of validate_instruction the reactor's
\* last_progress never decreases; it changes only in a call that has a
\* switch block, no shutdown for upgrade due and Ok(Some(..)) from
\* create_required_eras, and then to the last progress of consensus, which is
\* strictly later; a call that returns NonSwitchBlock (no switch block) or
\* ShutdownForUpgrade (a switch block, shutdown due) does not call
\* create_required_eras and leaves last_progress as it was.
ProgressNeverDecreases ==
    /\ []ValidateCases
    /\ [][last_progress' >= last_progress]_vars
    /\ [][vcall'.before = last_progress]_vars

\* C20 witness: a call returning Do, in which consensus was asked to create
\* the eras, has raised last_progress from 1 to that of consensus, 3.
ProgressNeverDecreasesWitness ==
    /\ vcall.instruction = "Do"
    /\ vcall.before = 1
    /\ vcall.consensus_progress = 3
    /\ last_progress = 3
    /\ vcall.asked

====
